---- MODULE Spec2Model ----
(***************************************************************************)
(* remotestate: provisioning of a terraform remote-state backend on AWS    *)
(* (two DynamoDB tables, a registry row GitURI -> BucketName and a secured *)
(* S3 bucket), modelled from src/remotestate/main/*.py.                    *)
(*                                                                         *)
(* Python strings are sequences of one-character strings; None is the      *)
(* one-element sequence <<"None">>, which no string equals.                *)
(***************************************************************************)
EXTENDS Naturals, Sequences, FiniteSets, TLC

VARIABLES
    tables,       \* remote DynamoDB: full table name -> [status, hash_key]
    registry,     \* remote DynamoDB: rows of the <table_name>.s3 tables
    buckets,      \* remote S3: bucket name -> [owner, region, tags, pab, versioning]
    clock,        \* time.time() in microseconds, counted from Epoch
    pc,           \* per runner: the remote call the run is about to issue
    self,         \* per runner: the fields of the BackendAWS object
    calls,        \* per runner: the remote calls issued by the current run
    failed,       \* per runner: some remote call of the current run failed
    entry,        \* per runner: the bucket as the current run first probed it
    made,         \* per runner: the bucket the current run has created
    written,      \* per runner: terraform/backend_auto.tf as written by the run
    runs,         \* number of runs started so far
    touched,      \* the mutating calls issued on a bucket that existed without the
                  \* ownership tag and that the issuing run had not created
    secured,      \* bucket name -> its state when a run first completed on it
    answer,       \* per runner: the response that the last mutating call of the
                  \* current run was given
    validated,    \* the registry rows whose put_item was answered with a response
                  \* that validate_aws accepted
    name_arg,     \* input string of a validator call
    name_ret,     \* result of that call
    git_arg,      \* the origin url given to source_git, by its parts
    git_ret,      \* what source_git made of it
    aws_arg,      \* response and expected status given to validate_aws
    aws_ret,      \* how validate_aws ended
    tag_arg,      \* what get_bucket_tagging handed to bucket_owned
    tag_ret       \* how bucket_owned ended

remote == <<tables, registry, buckets, clock>>
probe  == <<entry, made>>
runner == <<pc, self, calls, failed, entry, made, written, runs>>
ghost  == <<touched, secured, answer, validated>>
names  == <<name_arg, name_ret, git_arg, git_ret, aws_arg, aws_ret, tag_arg, tag_ret>>
vars   == <<tables, registry, buckets, clock, pc, self, calls, failed, entry, made,
            written, runs, touched, secured, answer, validated, name_arg, name_ret,
            git_arg,
            git_ret,
            aws_arg, aws_ret, tag_arg, tag_ret>>

-----------------------------------------------------------------------------
(* Bounds of the model.                                                    *)

MaxLen == 3         \* free characters of a validator input
MaxRuns == 2        \* runs started in one behaviour
MaxTags == 2        \* tags in a TagSet given to bucket_owned
MaxClock == 1       \* clock ticks in one behaviour
MaxSegments == 2    \* path segments of an origin url before the repository name

-----------------------------------------------------------------------------
(* Characters and strings.                                                 *)

None == <<"None">>

Lower == {"a","b","c","d","e","f","g","h","i","j","k","l","m",
          "n","o","p","q","r","s","t","u","v","w","x","y","z"}
Upper == {"A","B","C","D","E","F","G","H","I","J","K","L","M",
          "N","O","P","Q","R","S","T","U","V","W","X","Y","Z"}
Digit == {"0","1","2","3","4","5","6","7","8","9"}

isinstance_str(v) == v # None

\* re.search(r'[C]', s)
re_search(C, s) == \E i \in 1..Len(s) : s[i] \in C

\* re.match(r'^[C]', s)
re_match_first(C, s) == Len(s) >= 1 /\ s[1] \in C

\* re.search(r'[C]{2}', s)
re_search_twice(C, s) == \E i \in 1..(Len(s) - 1) : s[i] \in C /\ s[i + 1] \in C

\* Positions at which '$' matches: the end of the string, and just before a
\* newline that ends the string.
re_dollar(s) ==
    {Len(s)} \cup (IF Len(s) >= 1 /\ s[Len(s)] = "\n" THEN {Len(s) - 1} ELSE {})

\* re.match(r'^[C]*$', s)
re_match_all(C, s) == \E k \in re_dollar(s) : \A i \in 1..k : s[i] \in C

-----------------------------------------------------------------------------
(* aws_bucket.validate_s3bucket_name, aws_table.validate_name_dynamotable  *)

BucketNameMin == 3
BucketNameMax == 63
TableNameMin == 3
TableNameMax == 255
TablePostfix == 5

validate_s3bucket_name(bucket_name) ==
    IF Len(bucket_name) < BucketNameMin \/ Len(bucket_name) > BucketNameMax
    THEN <<FALSE, "BucketName should be of length: [3-63]">>
    ELSE IF re_search(Upper, bucket_name)
    THEN <<FALSE, "BucketName can't contain upper-case characters">>
    ELSE IF ~re_match_first(Lower \cup Digit, bucket_name)
    THEN <<FALSE, "BucketName should start with a lowercase letter or number">>
    ELSE IF re_search_twice({"-", "."}, bucket_name)
    THEN <<FALSE, "BucketName can't contain two special characters [-, .] in a row">>
    ELSE IF ~re_match_all({"-", "."} \cup Lower \cup Digit, bucket_name)
    THEN <<FALSE, "BucketName contains invalid character.">>
    ELSE <<TRUE, "Success">>

validate_name_dynamotable(table_name) ==
    IF Len(table_name) < TableNameMin \/ Len(table_name) > (TableNameMax - TablePostfix)
    THEN <<FALSE, "TableName should be of length: [3-255]">>
    ELSE IF ~re_match_first(Lower \cup Upper \cup Digit, table_name)
    THEN <<FALSE, "BucketName should start with a lowercase letter or number">>
    ELSE IF re_search_twice({"-", ".", "_"}, table_name)
    THEN <<FALSE, "TableName can't contain two special characters [-, ., _] in a row">>
    ELSE IF ~re_match_all({"-", ".", "_"} \cup Lower \cup Upper \cup Digit, table_name)
    THEN <<FALSE, "TableName contains invalid character.">>
    ELSE <<TRUE, "Success">>

-----------------------------------------------------------------------------
(* Python string operations used by make_backend.Backend.source_git.       *)

UpperSeq == <<"A","B","C","D","E","F","G","H","I","J","K","L","M",
              "N","O","P","Q","R","S","T","U","V","W","X","Y","Z">>
LowerSeq == <<"a","b","c","d","e","f","g","h","i","j","k","l","m",
              "n","o","p","q","r","s","t","u","v","w","x","y","z">>

\* str.lower()
lower(s) ==
    [i \in 1..Len(s) |->
        IF s[i] \in Upper
        THEN LowerSeq[CHOOSE k \in 1..Len(UpperSeq) : UpperSeq[k] = s[i]]
        ELSE s[i]]

\* s[i:] starts with the string w
starts_at(s, i, w) ==
    /\ i + Len(w) - 1 <= Len(s)
    /\ \A k \in 1..Len(w) : s[i + k - 1] = w[k]

RECURSIVE split(_, _)
\* str.split(sep) for a one-character sep
split(s, sep) ==
    IF \A i \in 1..Len(s) : s[i] # sep
    THEN <<s>>
    ELSE LET i == CHOOSE j \in 1..Len(s) :
                      s[j] = sep /\ \A k \in 1..(j - 1) : s[k] # sep
         IN  <<SubSeq(s, 1, i - 1)>> \o split(SubSeq(s, i + 1, Len(s)), sep)

RECURSIVE join(_, _)
\* sep.join(parts)
join(parts, sep) ==
    IF parts = <<>> THEN <<>>
    ELSE IF Len(parts) = 1 THEN parts[1]
    ELSE parts[1] \o sep \o join(Tail(parts), sep)

\* The end of the first line of s: '.' does not match a newline.
line_end(s) ==
    IF \A i \in 1..Len(s) : s[i] # "\n" THEN Len(s)
    ELSE (CHOOSE j \in 1..Len(s) : s[j] = "\n" /\ \A k \in 1..(j - 1) : s[k] # "\n") - 1

\* Last position in the first line of s at which w starts, 0 if none: where
\* the greedy '.*w' ends its '.*'.
last_in_line(s, w) ==
    LET hits == {i \in 1..line_end(s) : i + Len(w) - 1 <= line_end(s) /\ starts_at(s, i, w)}
    IN  IF hits = {} THEN 0 ELSE CHOOSE i \in hits : \A j \in hits : j <= i

RECURSIVE strip_uri_vars(_)
\* re.sub(r'.*:\/\/|.*@|:', '', s)
strip_uri_vars(s) ==
    IF s = <<>> THEN <<>>
    ELSE LET scheme == last_in_line(s, <<":", "/", "/">>)
             user   == last_in_line(s, <<"@">>)
         IN  IF scheme > 0 THEN strip_uri_vars(SubSeq(s, scheme + 3, Len(s)))
             ELSE IF user > 0 THEN strip_uri_vars(SubSeq(s, user + 1, Len(s)))
             ELSE IF s[1] = ":" THEN strip_uri_vars(Tail(s))
             ELSE <<s[1]>> \o strip_uri_vars(Tail(s))

\* re.sub(r'\.git$', '', s)
strip_dot_git(s) ==
    LET w    == <<".", "g", "i", "t">>
        ends == {k \in re_dollar(s) : k >= Len(w) /\ starts_at(s, k - Len(w) + 1, w)}
    IN  IF ends = {} THEN s
        ELSE LET k == CHOOSE e \in ends : TRUE
             IN  SubSeq(s, 1, k - Len(w)) \o SubSeq(s, k + 1, Len(s))

\* Backend.source_git, after the origin url and the branch have been read
source_git(origin, branch) ==
    LET git_url_project == lower(origin)
        parts     == split(git_url_project, "/")
        host_path == strip_uri_vars(join(SubSeq(parts, 1, Len(parts) - 1), <<"/">>))
        hp        == split(host_path, "/")
        git_host  == hp[1]
        git_path  == join(Tail(hp), <<".">>)
        repo_name == strip_dot_git(parts[Len(parts)])
        bucket_uri == git_host \o <<"/">> \o git_path \o <<"/">> \o repo_name
        up        == split(bucket_uri, "/")
    IN  [repo_name   |-> repo_name,
         bucket_uri  |-> bucket_uri,
         branch_name |-> branch,
         table_name  |-> <<"t","e","r","r","a","f","o","r","m",".">>
                         \o join(SubSeq(up, 1, Len(up) - 1), <<".">>)]

RECURSIVE str(_)
\* str(n) for a natural number n
str(n) ==
    LET d == <<"0","1","2","3","4","5","6","7","8","9">>
    IN  IF n < 10 THEN <<d[n + 1]>> ELSE str(n \div 10) \o <<d[(n % 10) + 1]>>

\* The clock counts microseconds from Epoch = 1700000000000000 us; its decimal
\* digits above the last one do not change while clock < 10.
EpochDigits == <<"1","7","0","0","0","0","0","0","0","0","0","0","0","0","0">>

\* aws_table.time_string
time_string(now) == EpochDigits \o str(now)

-----------------------------------------------------------------------------
(* Inputs of a run: the origin url and the branch read from .git/config,   *)
(* and the region the boto3 session is configured with.                    *)

\* the process of one invocation of the command; invocations do not overlap
Main == "main"

\* a second invocation, for the runs that overlap
Other == "other"

Runners == {Main, Other}

Origins ==
    { <<"h","t","t","p","s",":","/","/","g","h",".","i","o","/","o","r","g","/","a","p","p",".","g","i","t">>,
      <<"h","t","t","p","s",":","/","/","g","h",".","i","o","/","o","r","g","/","w","e","b",".","g","i","t">>,
      <<"g","i","t","@","g","h",".","i","o",":","o","r","g","/","a","p","p",".","g","i","t">>,
      <<"a","p","p",".","g","i","t">> }

Branches == { <<"m","a","i","n">> }

Regions == {"eu-west-1", "us-west-2"}

\* source_git of every origin and branch, computed once
identity == [o \in Origins, b \in Branches |-> source_git(o, b)]

Identities == {identity[o, b] : o \in Origins, b \in Branches}

lock_name(table_name) == table_name \o <<".","l","o","c","k">>
s3_name(table_name) == table_name \o <<".","s","3">>

\* the candidate bucket name of DynamoTable.lookup_s3
new_bucket_name(table_name, now) == table_name \o <<"-">> \o time_string(now)

TableNames ==
    UNION {{lock_name(i.table_name), s3_name(i.table_name)} :
           i \in {j \in Identities : validate_name_dynamotable(j.table_name)[1]}}

\* a DynamoDB table belongs to one region: boto3.client('dynamodb') reaches
\* the tables of the region the session is configured with
Tables == Regions \X TableNames

\* the rows of the .s3 tables: region, table, GitURI
RegistryKeys ==
    {<<g, s3_name(i.table_name), i.bucket_uri>> :
     g \in Regions,
     i \in {j \in Identities : validate_name_dynamotable(j.table_name)[1]}}

BucketNames ==
    {n \in {new_bucket_name(i.table_name, t) : i \in Identities, t \in 0..MaxClock} :
     validate_s3bucket_name(n)[1]}

-----------------------------------------------------------------------------
(* The remote services.                                                    *)

NoTable == [status |-> "ABSENT", hash_key |-> "none"]

NoBucket == [owner |-> "none", region |-> "none", tags |-> {},
             pab |-> {}, versioning |-> "Off"]

\* PublicAccessBlockConfiguration of tighten_policy
PublicAccessBlock ==
    {"BlockPublicAcls", "IgnorePublicAcls", "BlockPublicPolicy", "RestrictPublicBuckets"}

\* TagSet of create_bucket
OwnershipTags == {<<"managed_by", "terraform-init">>}

\* An API response: ResponseMetadata is a dict or not, and its HTTPStatusCode
\* is an int (with that value) or is not one.
Response(meta, type, code) ==
    [ResponseMetadata |-> meta, HTTPStatusCode_type |-> type, HTTPStatusCode |-> code]

Responses ==
    {Response("none", "none", 0), Response("dict", "none", 0)}
    \cup {Response("dict", "int", c) : c \in {200, 204}}

\* validate_aws that does not look at the value of the status code
validate_aws_any_status(response, expect_status_code) ==
    response.ResponseMetadata = "dict" /\ response.HTTPStatusCode_type = "int"

\* aws_base.validate_aws: TRUE, or FALSE for raise ResponseError
validate_aws(response, expect_status_code) ==
    IF response.ResponseMetadata # "dict" THEN FALSE
    ELSE IF response.HTTPStatusCode_type # "int" THEN FALSE
    ELSE response.HTTPStatusCode = expect_status_code

\* What boto3 hands back for a call the service could perform: a response (the
\* service has then performed the call), a ClientError that the state of the
\* service does not explain (throttling, access denied), or another exception
\* (no connection).  Errors that the state of the service dictates
\* (ResourceNotFoundException, BucketAlreadyExists, ...) are decided in the
\* actions.
Replies ==
    {[raise |-> "none", response |-> x] : x \in Responses}
    \cup {[raise |-> e, response |-> Response("none", "none", 0)] :
          e \in {"ClientError", "Exception"}}

-----------------------------------------------------------------------------
(* State after construction: nothing provisioned, no run started.          *)

NoSelf == [repo_name |-> None, bucket_uri |-> None, branch_name |-> None,
           bucket_name |-> None, table_name |-> None, candidate |-> None,
           session_region |-> "none", region_name |-> "none", error |-> "none"]

\* no validator called
NotCalled == [fn |-> "none", result |-> <<FALSE, "none">>]

\* no origin url given to source_git
NoOrigin == [style |-> "none", host |-> None, path |-> <<>>, repo |-> None, dot_git |-> FALSE]

\* get_bucket_tagging not called
NoFetch == [raise |-> "none", TagSet |-> <<>>, given |-> FALSE]

\* source_git not called
NoIdentity == [repo_name |-> None, bucket_uri |-> None, branch_name |-> None,
               table_name |-> None]

\* validate_aws not called
NoCall == [response |-> Response("none", "none", 0), given |-> FALSE,
           expect_status_code |-> 0]

\* no mutating call answered
NoAnswer == [op |-> "none", response |-> Response("none", "none", 0)]

\* no backend_auto.tf written
NoConfig == [BUCKET_NAME |-> None, TABLE_LOCK |-> None, REPO_NAME |-> None,
             BRANCH_NAME |-> None, REGION_NAME |-> "none"]

Init ==
    /\ tables = [t \in Tables |-> NoTable]
    /\ registry = [k \in RegistryKeys |-> None]
    /\ buckets = [b \in BucketNames |-> NoBucket]
    /\ clock = 0
    /\ pc = [r \in Runners |-> "idle"]
    /\ self = [r \in Runners |-> NoSelf]
    /\ calls = [r \in Runners |-> <<>>]
    /\ failed = [r \in Runners |-> FALSE]
    /\ entry = [r \in Runners |-> "unknown"]
    /\ made = [r \in Runners |-> None]
    /\ written = [r \in Runners |-> NoConfig]
    /\ runs = 0
    /\ touched = {}
    /\ secured = [b \in BucketNames |-> NoBucket]
    /\ answer = [r \in Runners |-> NoAnswer]
    /\ validated = {}
    /\ name_arg = None
    /\ name_ret = NotCalled
    /\ git_arg = NoOrigin
    /\ git_ret = NoIdentity
    /\ aws_arg = NoCall
    /\ aws_ret = "none"
    /\ tag_arg = NoFetch
    /\ tag_ret = "none"

-----------------------------------------------------------------------------
(* Steps of a run.  A run is BackendAWS.create(); each action is one       *)
(* remote call together with the code that handles its result, up to the   *)
(* next remote call.  When the process ends, its objects are gone: only    *)
(* the way it ended is kept in self[r].error.                              *)

Running(r) == pc[r] \notin {"idle", "done", "aborted"}

Idle == \A r \in Runners : pc[r] = "idle"

\* the call op is issued; bad: it failed
Issue(r, op, bad) ==
    /\ calls' = [calls EXCEPT ![r] = Append(@, op)]
    /\ failed' = [failed EXCEPT ![r] = @ \/ bad]

\* the mutating call op was given a response: the service has performed it
Answer(r, op, reply, res) ==
    answer' = [answer EXCEPT ![r] =
                  IF res \in {"ok", "exit: ResponseError"}
                  THEN [op |-> op, response |-> reply.response]
                  ELSE @]

\* the run goes on to the call next
Continue(r, next) ==
    /\ pc' = [pc EXCEPT ![r] = next]
    /\ self' = self

\* the process ends: sys.exit(message), or an exception that nothing catches
Stop(r, how) ==
    /\ pc' = [pc EXCEPT ![r] = "aborted"]
    /\ self' = [self EXCEPT ![r] = [NoSelf EXCEPT !.error = how]]

\* DynamoTable.__init__ up to its first remote call
DynamoTable_init(table_name, region) ==
    IF ~validate_name_dynamotable(table_name)[1] THEN "ValueError: table_name"
    ELSE IF region = "none" THEN "raise: NoRegionError"
    ELSE "describe_table.lock"

\* S3Bucket.__init__ up to its first remote call
S3Bucket_init(bucket_name) ==
    IF ~validate_s3bucket_name(bucket_name)[1] THEN "ValueError: bucket_name"
    ELSE "head_bucket"

\* BackendAWS.create whose source_git takes any current_branch() for a name
create_in_any_branch(r, regions) ==
    /\ pc[r] = "idle"
    /\ runs < MaxRuns
    /\ runs' = runs + 1
    /\ \E origin \in Origins \cup {None}, branch \in Branches \cup {None},
          region \in regions \cup {"none"} :
         IF ~isinstance_str(origin) THEN Stop(r, "ValueError: giturl")
         ELSE LET id   == IF isinstance_str(branch) THEN identity[origin, branch]
                          ELSE [identity[origin, CHOOSE b \in Branches : TRUE]
                                   EXCEPT !.branch_name = branch]
                  next == DynamoTable_init(id.table_name, region)
              IN  IF next # "describe_table.lock" THEN Stop(r, next)
                  ELSE /\ pc' = [pc EXCEPT ![r] = next]
                       /\ self' = [self EXCEPT ![r] =
                              [NoSelf EXCEPT !.repo_name = id.repo_name,
                                             !.bucket_uri = id.bucket_uri,
                                             !.branch_name = id.branch_name,
                                             !.table_name = id.table_name,
                                             !.session_region = region]]
    /\ UNCHANGED <<remote, calls, failed, probe, written, ghost, names>>

\* BackendAWS.create: source_git, then retrieve_bucket -> retrieve_bucket_name
\* -> retrieve_tables -> DynamoTable(table_name, auto_create=True), in a
\* session that is configured with one of regions or with no region
create_in(r, regions) ==
    /\ pc[r] = "idle"
    /\ runs < MaxRuns
    /\ runs' = runs + 1
    /\ \E origin \in Origins \cup {None}, branch \in Branches \cup {None},
          region \in regions \cup {"none"} :
         IF ~isinstance_str(origin) THEN Stop(r, "ValueError: giturl")
         ELSE IF ~isinstance_str(branch) THEN Stop(r, "ValueError: gitbranch")
         ELSE LET id   == identity[origin, branch]
                  next == DynamoTable_init(id.table_name, region)
              IN  IF next # "describe_table.lock" THEN Stop(r, next)
                  ELSE /\ pc' = [pc EXCEPT ![r] = next]
                       /\ self' = [self EXCEPT ![r] =
                              [NoSelf EXCEPT !.repo_name = id.repo_name,
                                             !.bucket_uri = id.bucket_uri,
                                             !.branch_name = id.branch_name,
                                             !.table_name = id.table_name,
                                             !.session_region = region]]
    /\ UNCHANGED <<remote, calls, failed, probe, written, ghost, names>>

\* the region the sessions of one workstation are configured with
HomeRegion == "eu-west-1"

\* BackendAWS.create on a workstation whose sessions use HomeRegion
create(r) == create_in(r, {HomeRegion})

\* BackendAWS.create on a workstation whose configured region is changed
\* between the runs
create_anywhere(r) == create_in(r, Regions)

\* the two tables of the run, in the region of its session
lock_table(r) == <<self[r].session_region, lock_name(self[r].table_name)>>
s3_table(r) == <<self[r].session_region, s3_name(self[r].table_name)>>

\* tables_exist that describes a table that is not there
describe_result_missing(t, reply) ==
    IF reply.raise = "Exception" THEN "raise" ELSE "ResourceNotFoundException"

\* tables_exist that reports a response of the wrong status as "not there"
describe_result_lenient(t, reply) ==
    IF reply.raise = "Exception" THEN "raise"
    ELSE IF tables[t].status = "ABSENT" THEN "ResourceNotFoundException"
    ELSE IF reply.raise = "ClientError" THEN "raise"
    ELSE IF ~validate_aws(reply.response, 200) THEN "ResourceNotFoundException"
    ELSE "ok"

\* DynamoTable.tables_exist: describe_table of <table_name>.lock or .s3
describe_result(t, reply) ==
    IF reply.raise = "Exception" THEN "raise"
    ELSE IF tables[t].status = "ABSENT" THEN "ResourceNotFoundException"
    ELSE IF reply.raise = "ClientError" THEN "raise"
    ELSE IF ~validate_aws(reply.response, 200) THEN "raise: ResponseError"
    ELSE "ok"

\* tables_exist that is content with the .lock table
describe_table_lock_only(r) ==
    /\ pc[r] = "describe_table.lock"
    /\ \E reply \in Replies :
         LET res == describe_result(lock_table(r), reply) IN
         /\ Issue(r, "describe_table.lock", res \notin {"ok", "ResourceNotFoundException"})
         /\ CASE res = "ok" -> Continue(r, "get_item")
              [] res = "ResourceNotFoundException" -> Continue(r, "create_table.lock")
              [] OTHER -> Stop(r, res)
    /\ UNCHANGED <<remote, probe, written, runs, ghost, names>>

describe_table_lock(r) ==
    /\ pc[r] = "describe_table.lock"
    /\ \E reply \in Replies :
         LET res == describe_result(lock_table(r), reply) IN
         /\ Issue(r, "describe_table.lock", res \notin {"ok", "ResourceNotFoundException"})
         /\ CASE res = "ok" -> Continue(r, "describe_table.s3")
              [] res = "ResourceNotFoundException" -> Continue(r, "create_table.lock")
              [] OTHER -> Stop(r, res)
    /\ UNCHANGED <<remote, probe, written, runs, ghost, names>>

describe_table_s3(r) ==
    /\ pc[r] = "describe_table.s3"
    /\ \E reply \in Replies :
         LET res == describe_result(s3_table(r), reply) IN
         /\ Issue(r, "describe_table.s3", res \notin {"ok", "ResourceNotFoundException"})
         /\ CASE res = "ok" -> Continue(r, "get_item")
              [] res = "ResourceNotFoundException" -> Continue(r, "create_table.lock")
              [] OTHER -> Stop(r, res)
    /\ UNCHANGED <<remote, probe, written, runs, ghost, names>>

\* DynamoTable.create_tables: create_table of one of the two tables
create_result(t, reply) ==
    IF reply.raise = "Exception" THEN "raise"
    ELSE IF tables[t].status # "ABSENT" THEN "ResourceInUseException"
    ELSE IF reply.raise = "ClientError" THEN "raise"
    ELSE IF ~validate_aws(reply.response, 200) THEN "exit: ResponseError"
    ELSE "ok"

\* the table t after the call: created unless the call raised
created_table(t, key, res) ==
    IF res \in {"ok", "exit: ResponseError"}
    THEN [tables EXCEPT ![t] = [status |-> "CREATING", hash_key |-> key]]
    ELSE tables

create_table_lock(r) ==
    /\ pc[r] = "create_table.lock"
    /\ \E reply \in Replies :
         LET t   == lock_table(r)
             res == create_result(t, reply)
         IN
         /\ Issue(r, "create_table.lock", res \notin {"ok", "ResourceInUseException"})
         /\ Answer(r, "create_table.lock", reply, res)
         /\ tables' = created_table(t, "LockID", res)
         /\ IF res \in {"ok", "ResourceInUseException"}
            THEN Continue(r, "create_table.s3")
            ELSE Stop(r, res)
    /\ UNCHANGED <<registry, buckets, clock, probe, written, runs, touched, secured, validated, names>>

create_table_s3(r) ==
    /\ pc[r] = "create_table.s3"
    /\ \E reply \in Replies :
         LET t   == s3_table(r)
             res == create_result(t, reply)
         IN
         /\ Issue(r, "create_table.s3", res \notin {"ok", "ResourceInUseException"})
         /\ Answer(r, "create_table.s3", reply, res)
         /\ tables' = created_table(t, "GitURI", res)
         /\ IF res \in {"ok", "ResourceInUseException"}
            THEN Continue(r, "wait.lock")
            ELSE Stop(r, res)
    /\ UNCHANGED <<registry, buckets, clock, probe, written, runs, touched, secured, validated, names>>

\* DynamoTable.create_tables: get_waiter('table_exists').wait; it returns when
\* the table is ACTIVE and raises when the table does not appear
wait_result(t, raises) ==
    IF raises \/ tables[t].status = "ABSENT" THEN "raise: WaiterError" ELSE "ok"

wait_lock(r) ==
    /\ pc[r] = "wait.lock"
    /\ \E raises \in BOOLEAN :
         LET t   == lock_table(r)
             res == wait_result(t, raises)
         IN
         /\ res = "ok" => tables[t].status = "ACTIVE"
         /\ Issue(r, "wait.lock", res # "ok")
         /\ IF res = "ok" THEN Continue(r, "wait.s3") ELSE Stop(r, res)
    /\ UNCHANGED <<remote, probe, written, runs, ghost, names>>

wait_s3(r) ==
    /\ pc[r] = "wait.s3"
    /\ \E raises \in BOOLEAN :
         LET t   == s3_table(r)
             res == wait_result(t, raises)
         IN
         /\ res = "ok" => tables[t].status = "ACTIVE"
         /\ Issue(r, "wait.s3", res # "ok")
         /\ IF res = "ok" THEN Continue(r, "get_item") ELSE Stop(r, res)
    /\ UNCHANGED <<remote, probe, written, runs, ghost, names>>

-----------------------------------------------------------------------------
(* DynamoTable.lookup_s3(bucket_uri, auto_create=True), called by          *)
(* BackendAWS.retrieve_bucket_name; its result goes to S3Bucket(...).      *)

registry_key(r) ==
    <<self[r].session_region, s3_name(self[r].table_name), self[r].bucket_uri>>

item_result(t, reply) ==
    IF reply.raise = "Exception" THEN "raise"
    ELSE IF tables[t].status # "ACTIVE" THEN "raise: ResourceNotFoundException"
    ELSE IF reply.raise = "ClientError" THEN "raise"
    ELSE IF ~validate_aws(reply.response, 200) THEN "exit: ResponseError"
    ELSE "ok"

\* lookup_s3 without the validation of the name it has made
candidate_unchecked(bucket_name) == TRUE

\* lookup_s3: the validation of the name it has made
candidate_ok(bucket_name) == validate_s3bucket_name(bucket_name)[1]

\* lookup_s3 that never finds the row
has_bucket_name_never(key) == FALSE

\* the row exists and its BucketName is a string
has_bucket_name(key) == isinstance_str(registry[key])

\* table.get_item and what follows it up to the next remote call
get_item(r) ==
    /\ pc[r] = "get_item"
    /\ \E reply \in Replies :
         LET res   == item_result(s3_table(r), reply)
             value == registry[registry_key(r)]
             bucket_name == new_bucket_name(self[r].table_name, clock)
         IN
         /\ Issue(r, "get_item", res # "ok")
         /\ IF res # "ok" THEN Stop(r, res)
            ELSE IF has_bucket_name(registry_key(r))
            THEN IF S3Bucket_init(value) # "head_bucket"
                 THEN Stop(r, S3Bucket_init(value))
                 ELSE /\ pc' = [pc EXCEPT ![r] = "head_bucket"]
                      /\ self' = [self EXCEPT ![r].bucket_name = value]
            ELSE IF ~candidate_ok(bucket_name)
                 THEN Stop(r, "ValueError: bucket_name")
                 ELSE /\ pc' = [pc EXCEPT ![r] = "put_item"]
                      /\ self' = [self EXCEPT ![r].candidate = bucket_name]
    /\ UNCHANGED <<remote, probe, written, runs, ghost, names>>

\* lookup_s3 whose put_item leaves a row that is there alone
put_item_conditional(r) ==
    /\ pc[r] = "put_item"
    /\ \E reply \in Replies :
         LET res == item_result(s3_table(r), reply) IN
         /\ Issue(r, "put_item", res # "ok")
         /\ Answer(r, "put_item", reply, res)
         /\ registry' = IF res \in {"ok", "exit: ResponseError"}
                           /\ ~has_bucket_name(registry_key(r))
                        THEN [registry EXCEPT ![registry_key(r)] = self[r].candidate]
                        ELSE registry
         /\ IF res # "ok" THEN Stop(r, res)
            ELSE IF S3Bucket_init(self[r].candidate) # "head_bucket"
            THEN Stop(r, S3Bucket_init(self[r].candidate))
            ELSE /\ pc' = [pc EXCEPT ![r] = "head_bucket"]
                 /\ self' = [self EXCEPT ![r].bucket_name = self[r].candidate]
         /\ validated' = IF res = "ok" THEN validated \cup {registry_key(r)}
                          ELSE IF res = "exit: ResponseError"
                          THEN validated \ {registry_key(r)}
                          ELSE validated
    /\ UNCHANGED <<tables, buckets, clock, probe, written, runs, touched, secured, names>>

\* lookup_s3 that goes on with the name it has made and writes no row
put_item_unwritten(r) ==
    /\ pc[r] = "put_item"
    /\ \E reply \in Replies :
         LET res == item_result(s3_table(r), reply) IN
         /\ Issue(r, "put_item", res # "ok")
         /\ Answer(r, "put_item", reply, res)
         /\ registry' = registry
         /\ IF res # "ok" THEN Stop(r, res)
            ELSE IF S3Bucket_init(self[r].candidate) # "head_bucket"
            THEN Stop(r, S3Bucket_init(self[r].candidate))
            ELSE /\ pc' = [pc EXCEPT ![r] = "head_bucket"]
                 /\ self' = [self EXCEPT ![r].bucket_name = self[r].candidate]
         /\ validated' = IF res = "ok" THEN validated \cup {registry_key(r)}
                          ELSE IF res = "exit: ResponseError"
                          THEN validated \ {registry_key(r)}
                          ELSE validated
    /\ UNCHANGED <<tables, buckets, clock, probe, written, runs, touched, secured, names>>

\* table.put_item of the new row, then S3Bucket(bucket_name, auto_create=True)
put_item(r) ==
    /\ pc[r] = "put_item"
    /\ \E reply \in Replies :
         LET res == item_result(s3_table(r), reply) IN
         /\ Issue(r, "put_item", res # "ok")
         /\ Answer(r, "put_item", reply, res)
         /\ registry' = IF res \in {"ok", "exit: ResponseError"}
                        THEN [registry EXCEPT ![registry_key(r)] = self[r].candidate]
                        ELSE registry
         /\ IF res # "ok" THEN Stop(r, res)
            ELSE IF S3Bucket_init(self[r].candidate) # "head_bucket"
            THEN Stop(r, S3Bucket_init(self[r].candidate))
            ELSE /\ pc' = [pc EXCEPT ![r] = "head_bucket"]
                 /\ self' = [self EXCEPT ![r].bucket_name = self[r].candidate]
         /\ validated' = IF res = "ok" THEN validated \cup {registry_key(r)}
                          ELSE IF res = "exit: ResponseError"
                          THEN validated \ {registry_key(r)}
                          ELSE validated
    /\ UNCHANGED <<tables, buckets, clock, probe, written, runs, touched, secured, names>>

-----------------------------------------------------------------------------
(* S3Bucket.create_bucket and S3Bucket.tighten_policy                      *)

\* the tags that make bucket_owned true
found(tag_set) == {tag \in tag_set : tag[1] = "managed_by" /\ tag[2] = "terraform-init"}

\* bucket_owned that takes any answer for a yes
bucket_owned_always(b, reply) ==
    IF reply.raise = "Exception" THEN "raise" ELSE "True"

\* tag.get('Key') or tag.get('Value') of a tag that lacks the entry: None,
\* which is no str
NotStr == "None (no str)"

\* one tag of a TagSet
Tag(k, v) == [Key |-> k, Value |-> v]

\* the tag that bucket_owned looks for
is_ownership_tag(tag) ==
    /\ tag.Key # NotStr /\ tag.Key = "managed_by"
    /\ tag.Value # NotStr /\ tag.Value = "terraform-init"

\* bucket_owned that is content with one ownership tag or more
bucket_owned_of_some(bucket_tagging) ==
    IF bucket_tagging.raise = "Exception" THEN "raise"
    ELSE IF bucket_tagging.raise = "NoSuchBucket" THEN "False"
    ELSE IF bucket_tagging.raise = "ClientError" THEN "False"
    ELSE IF bucket_tagging.TagSet = <<>> THEN "False"
    ELSE IF Len(SelectSeq(bucket_tagging.TagSet, is_ownership_tag)) >= 1 THEN "True"
    ELSE "False"

\* S3Bucket.bucket_owned on what get_bucket_tagging handed back: an exception,
\* or a response whose TagSet is a list of tags (.get('TagSet') of a response
\* without one is None, which "not tag_set" treats like the empty list)
bucket_owned_of(bucket_tagging) ==
    IF bucket_tagging.raise = "Exception" THEN "raise"
    ELSE IF bucket_tagging.raise = "NoSuchBucket" THEN "False"
    ELSE IF bucket_tagging.raise = "ClientError" THEN "False"
    ELSE IF bucket_tagging.TagSet = <<>> THEN "False"
    ELSE IF Len(SelectSeq(bucket_tagging.TagSet, is_ownership_tag)) = 1 THEN "True"
    ELSE "False"

RECURSIVE as_list(_)
\* the tags of a bucket as the list S3 returns
as_list(tags) ==
    IF tags = {} THEN <<>>
    ELSE LET tag == CHOOSE t \in tags : TRUE
         IN  <<Tag(tag[1], tag[2])>> \o as_list(tags \ {tag})

\* what get_bucket_tagging hands back for bucket b
get_bucket_tagging_of(b, reply) ==
    IF reply.raise = "Exception"
    THEN [raise |-> "Exception", TagSet |-> <<>>, given |-> FALSE]
    ELSE IF buckets[b].owner = "none"
    THEN [raise |-> "NoSuchBucket", TagSet |-> <<>>, given |-> FALSE]
    ELSE IF buckets[b].owner # "us"                     \* AccessDenied
    THEN [raise |-> "ClientError", TagSet |-> <<>>, given |-> FALSE]
    ELSE IF reply.raise = "ClientError"
    THEN [raise |-> "ClientError", TagSet |-> <<>>, given |-> FALSE]
    ELSE IF buckets[b].tags = {}                        \* NoSuchTagSet
    THEN [raise |-> "ClientError", TagSet |-> <<>>, given |-> FALSE]
    ELSE [raise |-> "none", TagSet |-> as_list(buckets[b].tags), given |-> TRUE]

\* S3Bucket.bucket_owned on the answer of get_bucket_tagging
bucket_owned(b, reply) == bucket_owned_of(get_bucket_tagging_of(b, reply))

\* S3Bucket.bucket_exist on the answer of head_bucket
bucket_exist(b, reply) ==
    IF reply.raise = "Exception" THEN "raise"
    ELSE IF buckets[b].owner # "us" THEN "False"        \* ClientError: 404, 403
    ELSE IF reply.raise = "ClientError" THEN "False"
    ELSE IF ~validate_aws(reply.response, 200) THEN "False"
    ELSE "True"

\* the bucket is in this account and carries the ownership tag
is_owned(b) == buckets[b].owner = "us" /\ Cardinality(found(buckets[b].tags)) = 1

\* the bucket is owned, blocks public access and keeps versions
is_secured(b) ==
    /\ is_owned(b)
    /\ buckets[b].pab = PublicAccessBlock
    /\ buckets[b].versioning = "Enabled"

\* how the remote bucket looks to an observer who sees everything
view(b) ==
    IF buckets[b].owner = "none" THEN "absent"
    ELSE IF is_secured(b) THEN "secured"
    ELSE IF is_owned(b) THEN "owned"
    ELSE "unowned"

head_bucket(r) ==
    /\ pc[r] = "head_bucket"
    /\ \E reply \in Replies :
         LET b   == self[r].bucket_name
             res == bucket_exist(b, reply)
         IN
         /\ Issue(r, "head_bucket",
                  res = "raise" \/ (res = "False" /\ buckets[b].owner = "us"))
         /\ entry' = [entry EXCEPT ![r] = view(b)]
         /\ made' = made
         /\ CASE res = "True" -> Continue(r, "get_bucket_tagging")
              [] res = "False" -> Continue(r, "create_bucket")
              [] OTHER -> Stop(r, res)
    /\ UNCHANGED <<remote, written, runs, ghost, names>>

\* create_bucket that exits on the bucket it owns
get_bucket_tagging_inverted(r) ==
    /\ pc[r] = "get_bucket_tagging"
    /\ \E reply \in Replies :
         LET b   == self[r].bucket_name
             res == bucket_owned(b, reply)
         IN
         /\ Issue(r, "get_bucket_tagging",
                  res = "raise" \/ (res = "False" /\ is_owned(b)))
         /\ CASE res = "False" -> Continue(r, "tighten.get_bucket_tagging")
              [] res = "True" -> Stop(r, "exit: not managed by terraform-init")
              [] OTHER -> Stop(r, res)
    /\ UNCHANGED <<remote, probe, written, runs, ghost, names>>

\* create_bucket: bucket_owned() of a bucket that exists
\* create_bucket that goes on to its create call on the bucket it owns
get_bucket_tagging_no_return(r) ==
    /\ pc[r] = "get_bucket_tagging"
    /\ \E reply \in Replies :
         LET b   == self[r].bucket_name
             res == bucket_owned(b, reply)
         IN
         /\ Issue(r, "get_bucket_tagging",
                  res = "raise" \/ (res = "False" /\ is_owned(b)))
         /\ CASE res = "True" -> Continue(r, "create_bucket")
              [] res = "False" -> Stop(r, "exit: not managed by terraform-init")
              [] OTHER -> Stop(r, res)
    /\ UNCHANGED <<remote, probe, written, runs, ghost, names>>

get_bucket_tagging(r) ==
    /\ pc[r] = "get_bucket_tagging"
    /\ \E reply \in Replies :
         LET b   == self[r].bucket_name
             res == bucket_owned(b, reply)
         IN
         /\ Issue(r, "get_bucket_tagging",
                  res = "raise" \/ (res = "False" /\ is_owned(b)))
         /\ CASE res = "True" -> Continue(r, "tighten.get_bucket_tagging")
              [] res = "False" -> Stop(r, "exit: not managed by terraform-init")
              [] OTHER -> Stop(r, res)
    /\ UNCHANGED <<remote, probe, written, runs, ghost, names>>

create_bucket_result(b, reply) ==
    IF reply.raise = "Exception" THEN "raise"
    ELSE IF buckets[b].owner = "us" THEN "BucketAlreadyOwnedByYou"
    ELSE IF buckets[b].owner # "none" THEN "exit: BucketAlreadyExists"
    ELSE IF reply.raise = "ClientError" THEN "exit: S3ResponseError"
    ELSE IF ~validate_aws(reply.response, 200) THEN "exit: ResponseError"
    ELSE "ok"

\* the mutating call op is issued on bucket b
touch(r, b, op) ==
    IF view(b) = "unowned" /\ made[r] # b THEN touched \cup {op} ELSE touched

\* create_bucket: client.create_bucket
create_bucket(r) ==
    /\ pc[r] = "create_bucket"
    /\ \E reply \in Replies :
         LET b   == self[r].bucket_name
             res == create_bucket_result(b, reply)
         IN
         /\ Issue(r, "create_bucket", res \notin {"ok", "BucketAlreadyOwnedByYou"})
         /\ Answer(r, "create_bucket", reply, res)
         /\ touched' = touch(r, b, "create_bucket")
         /\ made' = [made EXCEPT ![r] = IF res \in {"ok", "exit: ResponseError"} THEN b ELSE @]
         /\ buckets' = IF res \in {"ok", "exit: ResponseError"}
                       THEN [buckets EXCEPT ![b] =
                                [NoBucket EXCEPT !.owner = "us",
                                                 !.region = self[r].session_region]]
                       ELSE buckets
         /\ CASE res = "ok" -> Continue(r, "put_bucket_tagging")
              [] res = "BucketAlreadyOwnedByYou" -> Continue(r, "tighten.get_bucket_tagging")
              [] OTHER -> Stop(r, res)
    /\ UNCHANGED <<tables, registry, clock, entry, written, runs, secured, validated, names>>

\* a put_* call whose response is not looked at
put_result_unvalidated(b, reply, expect_status_code) ==
    IF reply.raise # "none" \/ buckets[b].owner # "us" THEN "raise" ELSE "ok"

\* the result of a put_* call on a bucket
put_result(b, reply, expect_status_code) ==
    IF reply.raise # "none" \/ buckets[b].owner # "us" THEN "raise"
    ELSE IF ~validate_aws(reply.response, expect_status_code) THEN "exit: ResponseError"
    ELSE "ok"

\* create_bucket: client.put_bucket_tagging
put_bucket_tagging(r) ==
    /\ pc[r] = "put_bucket_tagging"
    /\ \E reply \in Replies :
         LET b   == self[r].bucket_name
             res == put_result(b, reply, 204)
         IN
         /\ Issue(r, "put_bucket_tagging", res # "ok")
         /\ Answer(r, "put_bucket_tagging", reply, res)
         /\ touched' = touch(r, b, "put_bucket_tagging")
         /\ buckets' = IF res = "raise" THEN buckets
                       ELSE [buckets EXCEPT ![b].tags = OwnershipTags]
         /\ IF res = "ok" THEN Continue(r, "tighten.get_bucket_tagging") ELSE Stop(r, res)
    /\ UNCHANGED <<tables, registry, clock, probe, written, runs, secured, validated, names>>

\* tighten_policy that does not ask whose bucket it is
tighten_unchecked(r) ==
    /\ pc[r] = "tighten.get_bucket_tagging"
    /\ \E reply \in Replies :
         LET b   == self[r].bucket_name
             res == bucket_owned(b, reply)
         IN
         /\ Issue(r, "get_bucket_tagging",
                  res = "raise" \/ (res = "False" /\ is_owned(b)))
         /\ IF res = "raise" THEN Stop(r, res) ELSE Continue(r, "put_public_access_block")
    /\ UNCHANGED <<remote, probe, written, runs, ghost, names>>

\* tighten_policy: bucket_owned(), whoever created the bucket
tighten_get_bucket_tagging(r) ==
    /\ pc[r] = "tighten.get_bucket_tagging"
    /\ \E reply \in Replies :
         LET b   == self[r].bucket_name
             res == bucket_owned(b, reply)
         IN
         /\ Issue(r, "get_bucket_tagging",
                  res = "raise" \/ (res = "False" /\ is_owned(b)))
         /\ CASE res = "True" -> Continue(r, "put_public_access_block")
              [] res = "False" -> Stop(r, "exit: bucket is not managed by us")
              [] OTHER -> Stop(r, res)
    /\ UNCHANGED <<remote, probe, written, runs, ghost, names>>

\* tighten_policy: client.put_public_access_block
put_public_access_block(r) ==
    /\ pc[r] = "put_public_access_block"
    /\ \E reply \in Replies :
         LET b   == self[r].bucket_name
             res == put_result(b, reply, 200)
         IN
         /\ Issue(r, "put_public_access_block", res # "ok")
         /\ Answer(r, "put_public_access_block", reply, res)
         /\ touched' = touch(r, b, "put_public_access_block")
         /\ buckets' = IF res = "raise" THEN buckets
                       ELSE [buckets EXCEPT ![b].pab = PublicAccessBlock]
         /\ IF res = "ok" THEN Continue(r, "put_bucket_versioning") ELSE Stop(r, res)
    /\ UNCHANGED <<tables, registry, clock, probe, written, runs, secured, validated, names>>

\* VersioningConfiguration of tighten_policy
VersioningStatus == "Enabled"

\* tighten_policy: client.put_bucket_versioning; then S3Bucket(...) returns to
\* BackendAWS.create, which takes bucket.region_name and calls
\* update_backend_terraform
put_bucket_versioning(r) ==
    /\ pc[r] = "put_bucket_versioning"
    /\ \E reply \in Replies :
         LET b   == self[r].bucket_name
             res == put_result(b, reply, 200)
         IN
         /\ Issue(r, "put_bucket_versioning", res # "ok")
         /\ Answer(r, "put_bucket_versioning", reply, res)
         /\ touched' = touch(r, b, "put_bucket_versioning")
         /\ buckets' = IF res = "raise" THEN buckets
                       ELSE [buckets EXCEPT ![b].versioning = VersioningStatus]
         /\ secured' = IF res = "ok" /\ secured[b] = NoBucket
                       THEN [secured EXCEPT ![b] = buckets'[b]]
                       ELSE secured
         /\ IF res = "ok"
            THEN /\ pc' = [pc EXCEPT ![r] = "update_backend_terraform"]
                 /\ self' = [self EXCEPT ![r].region_name = self[r].session_region]
            ELSE Stop(r, res)
    /\ UNCHANGED <<tables, registry, clock, probe, written, runs, validated, names>>

\* Backend.update_backend_terraform: render and write terraform/backend_auto.tf
update_backend_terraform(r) ==
    /\ pc[r] = "update_backend_terraform"
    /\ written' = [written EXCEPT ![r] =
           [BUCKET_NAME |-> self[r].bucket_name,
            TABLE_LOCK  |-> lock_name(self[r].table_name),
            REPO_NAME   |-> self[r].repo_name,
            BRANCH_NAME |-> self[r].branch_name,
            REGION_NAME |-> self[r].region_name]]
    /\ pc' = [pc EXCEPT ![r] = "done"]
    /\ self' = [self EXCEPT ![r] = NoSelf]
    /\ UNCHANGED <<remote, calls, failed, probe, runs, ghost, names>>

\* the process is killed between two remote calls
interrupt(r) ==
    /\ Running(r)
    /\ Stop(r, "killed")
    /\ UNCHANGED <<remote, calls, failed, probe, written, runs, ghost, names>>

\* the process has ended; what it knew is gone, and the next invocation is a
\* new process
exit(r) ==
    /\ pc[r] \in {"done", "aborted"}
    /\ pc' = [pc EXCEPT ![r] = "idle"]
    /\ self' = [self EXCEPT ![r] = NoSelf]
    /\ calls' = [calls EXCEPT ![r] = <<>>]
    /\ failed' = [failed EXCEPT ![r] = FALSE]
    /\ entry' = [entry EXCEPT ![r] = "unknown"]
    /\ made' = [made EXCEPT ![r] = None]
    /\ written' = [written EXCEPT ![r] = NoConfig]
    /\ answer' = [answer EXCEPT ![r] = NoAnswer]
    /\ UNCHANGED <<remote, runs, touched, secured, validated, names>>

-----------------------------------------------------------------------------
(* The world around the runs.                                              *)

\* DynamoDB finishes creating a table
table_active(t) ==
    /\ tables[t].status = "CREATING"
    /\ tables' = [tables EXCEPT ![t].status = "ACTIVE"]
    /\ UNCHANGED <<registry, buckets, clock, runner, ghost, names>>

\* the names lookup_s3 would generate now
names_now == {new_bucket_name(i.table_name, clock) : i \in Identities}

\* time passes; it shows only in the names that lookup_s3 generates, so the
\* clock is moved on only from a time whose names are in use.  time.time() is
\* the wall clock of the host that runs the command: it follows every
\* adjustment of the system clock and differs between hosts, so a later call
\* may read the microsecond an earlier call has read.
tick ==
    /\ Idle
    /\ clock < MaxClock
    /\ \/ \E k \in RegistryKeys : registry[k] \in names_now
       \/ \E b \in BucketNames \cap names_now : buckets[b].owner # "none"
    /\ clock' = clock + 1
    /\ UNCHANGED <<tables, registry, buckets, runner, ghost, names>>

\* somebody else has created a bucket of that name, in this account or in
\* another one; one such bucket is considered
foreign_bucket(b, owner, tags) ==
    /\ Idle
    /\ \A c \in BucketNames : buckets[c].region # "elsewhere"
    /\ buckets[b].owner = "none"
    /\ buckets' = [buckets EXCEPT ![b] =
                      [NoBucket EXCEPT !.owner = owner, !.region = "elsewhere", !.tags = tags]]
    /\ UNCHANGED <<tables, registry, clock, runner, ghost, names>>

Next ==
    \/ create(Main)
    \/ describe_table_lock(Main)
    \/ describe_table_s3(Main)
    \/ create_table_lock(Main)
    \/ create_table_s3(Main)
    \/ wait_lock(Main)
    \/ wait_s3(Main)
    \/ get_item(Main)
    \/ put_item(Main)
    \/ head_bucket(Main)
    \/ get_bucket_tagging(Main)
    \/ create_bucket(Main)
    \/ put_bucket_tagging(Main)
    \/ tighten_get_bucket_tagging(Main)
    \/ put_public_access_block(Main)
    \/ put_bucket_versioning(Main)
    \/ update_backend_terraform(Main)
    \/ interrupt(Main)
    \/ exit(Main)
    \/ \E t \in Tables : table_active(t)
    \/ tick
    \/ \E b \in BucketNames, owner \in {"us", "other"} :
           foreign_bucket(b, owner, {<<"team", "infra">>})

\* Runs of the tool one after the other against one account, all of them in
\* sessions of HomeRegion.
Spec == Init /\ [][Next]_vars

NextRegions ==
    \/ create_anywhere(Main)
    \/ describe_table_lock(Main)
    \/ describe_table_s3(Main)
    \/ create_table_lock(Main)
    \/ create_table_s3(Main)
    \/ wait_lock(Main)
    \/ wait_s3(Main)
    \/ get_item(Main)
    \/ put_item(Main)
    \/ head_bucket(Main)
    \/ get_bucket_tagging(Main)
    \/ create_bucket(Main)
    \/ put_bucket_tagging(Main)
    \/ tighten_get_bucket_tagging(Main)
    \/ put_public_access_block(Main)
    \/ put_bucket_versioning(Main)
    \/ update_backend_terraform(Main)
    \/ interrupt(Main)
    \/ exit(Main)
    \/ \E t \in Tables : table_active(t)
    \/ tick
    \/ \E b \in BucketNames, owner \in {"us", "other"} :
           foreign_bucket(b, owner, {<<"team", "infra">>})

\* Runs of the tool one after the other against one account, in sessions of
\* any region.
SpecRegions == Init /\ [][NextRegions]_vars

-----------------------------------------------------------------------------
(* Two invocations that overlap: the command is started on two hosts, in   *)
(* the same region and in clones of the same repository, and each process  *)
(* runs to its end.  Their remote calls interleave in every order.         *)

\* BackendAWS.create of an invocation that overlaps with one under way
create_beside(r) ==
    /\ create(r)
    /\ \A q \in Runners \ {r} :
          pc[q] # "idle" =>
              /\ pc'[r] # "aborted"
              /\ pc[q] # "aborted"
              /\ self'[r].bucket_uri = self[q].bucket_uri
              /\ self'[r].session_region = self[q].session_region

\* time passes while a lookup_s3 is under way
elapse ==
    /\ clock < MaxClock
    /\ \E r \in Runners : pc[r] = "get_item"
    /\ clock' = clock + 1
    /\ UNCHANGED <<tables, registry, buckets, runner, ghost, names>>

NextRace ==
    \/ \E r \in Runners :
          \/ create_beside(r)
          \/ describe_table_lock(r)
          \/ describe_table_s3(r)
          \/ create_table_lock(r)
          \/ create_table_s3(r)
          \/ wait_lock(r)
          \/ wait_s3(r)
          \/ get_item(r)
          \/ put_item(r)
          \/ head_bucket(r)
          \/ get_bucket_tagging(r)
          \/ create_bucket(r)
          \/ put_bucket_tagging(r)
          \/ tighten_get_bucket_tagging(r)
          \/ put_public_access_block(r)
          \/ put_bucket_versioning(r)
          \/ update_backend_terraform(r)
    \/ \E t \in Tables : table_active(t)
    \/ elapse

SpecRace == Init /\ [][NextRace]_vars

-----------------------------------------------------------------------------
(* The two name validators on their own, on strings of every shape: up to  *)
(* MaxLen free characters, alone or next to a run of 'a's that brings the  *)
(* length to the limits of the two grammars.                               *)

InputChars == {"a", "Z", "0", "-", ".", "_", "~", "\n"}

Bodies == UNION {[1..n -> InputChars] : n \in 0..MaxLen}

Pads ==
    {[i \in 1..n |-> "a"] :
        n \in {0, BucketNameMax - MaxLen, BucketNameMax - MaxLen + 1,
               TableNameMax - TablePostfix - MaxLen,
               TableNameMax - TablePostfix - MaxLen + 1}}

NameInputs == {b \o p : b \in Bodies, p \in Pads} \cup {p \o b : b \in Bodies, p \in Pads}

InitNames ==
    /\ tables = [t \in Tables |-> NoTable]
    /\ registry = [k \in RegistryKeys |-> None]
    /\ buckets = [b \in BucketNames |-> NoBucket]
    /\ clock = 0
    /\ pc = [r \in Runners |-> "idle"]
    /\ self = [r \in Runners |-> NoSelf]
    /\ calls = [r \in Runners |-> <<>>]
    /\ failed = [r \in Runners |-> FALSE]
    /\ entry = [r \in Runners |-> "unknown"]
    /\ made = [r \in Runners |-> None]
    /\ written = [r \in Runners |-> NoConfig]
    /\ runs = 0
    /\ touched = {}
    /\ secured = [b \in BucketNames |-> NoBucket]
    /\ answer = [r \in Runners |-> NoAnswer]
    /\ validated = {}
    /\ name_arg \in NameInputs
    /\ name_ret = NotCalled
    /\ git_arg = NoOrigin
    /\ git_ret = NoIdentity
    /\ aws_arg = NoCall
    /\ aws_ret = "none"
    /\ tag_arg = NoFetch
    /\ tag_ret = "none"

call_validate_s3bucket_name ==
    /\ name_ret = NotCalled
    /\ name_ret' = [fn |-> "validate_s3bucket_name",
                    result |-> validate_s3bucket_name(name_arg)]
    /\ UNCHANGED <<remote, runner, ghost, name_arg, git_arg, git_ret, aws_arg, aws_ret, tag_arg, tag_ret>>

call_validate_name_dynamotable ==
    /\ name_ret = NotCalled
    /\ name_ret' = [fn |-> "validate_name_dynamotable",
                    result |-> validate_name_dynamotable(name_arg)]
    /\ UNCHANGED <<remote, runner, ghost, name_arg, git_arg, git_ret, aws_arg, aws_ret, tag_arg, tag_ret>>

NextNames == call_validate_s3bucket_name \/ call_validate_name_dynamotable

SpecNames == InitNames /\ [][NextNames]_vars

-----------------------------------------------------------------------------
(* Backend.source_git on its own, on origin urls of the three usual        *)
(* shapes: user@host:path (scp style), https://host/path and               *)
(* ssh://user@host/path, with up to MaxSegments path segments before the   *)
(* repository name, with and without the .git suffix.                      *)

Hosts == { <<"g","i","t","h","u","b",".","c","o","m">>, <<"g","h",".","i","o">> }

\* names of groups and subgroups; a name may hold a dot
Segments ==
    { <<"o","r","g">>, <<"s","u","b">>, <<"o","p","s">>, <<"o","r","g",".","s","u","b">> }

Repos == { <<"m","y","r","e","p","o">>, <<"a","p","p">> }

Paths == UNION {[1..n -> Segments] : n \in 1..MaxSegments}

GitOrigins ==
    [style : {"scp", "https", "ssh"}, host : Hosts, path : Paths, repo : Repos,
     dot_git : BOOLEAN]

\* the url of [remote "origin"] in .git/config
origin_url(o) ==
    LET front == CASE o.style = "scp"   -> <<"g","i","t","@">> \o o.host \o <<":">>
                   [] o.style = "https" -> <<"h","t","t","p","s",":","/","/">> \o o.host \o <<"/">>
                   [] OTHER -> <<"s","s","h",":","/","/","g","i","t","@">> \o o.host \o <<"/">>
        back  == IF o.dot_git THEN <<".","g","i","t">> ELSE <<>>
    IN  front \o join(o.path, <<"/">>) \o <<"/">> \o o.repo \o back

InitGit ==
    /\ tables = [t \in Tables |-> NoTable]
    /\ registry = [k \in RegistryKeys |-> None]
    /\ buckets = [b \in BucketNames |-> NoBucket]
    /\ clock = 0
    /\ pc = [r \in Runners |-> "idle"]
    /\ self = [r \in Runners |-> NoSelf]
    /\ calls = [r \in Runners |-> <<>>]
    /\ failed = [r \in Runners |-> FALSE]
    /\ entry = [r \in Runners |-> "unknown"]
    /\ made = [r \in Runners |-> None]
    /\ written = [r \in Runners |-> NoConfig]
    /\ runs = 0
    /\ touched = {}
    /\ secured = [b \in BucketNames |-> NoBucket]
    /\ answer = [r \in Runners |-> NoAnswer]
    /\ validated = {}
    /\ name_arg = None
    /\ name_ret = NotCalled
    /\ git_arg \in GitOrigins
    /\ git_ret = NoIdentity
    /\ aws_arg = NoCall
    /\ aws_ret = "none"
    /\ tag_arg = NoFetch
    /\ tag_ret = "none"

call_source_git ==
    /\ git_ret = NoIdentity
    /\ git_ret' = source_git(origin_url(git_arg), <<"m","a","i","n">>)
    /\ UNCHANGED <<remote, runner, ghost, name_arg, name_ret, git_arg, aws_arg, aws_ret, tag_arg, tag_ret>>

\* every origin with what source_git makes of it, computed once
derived ==
    {[origin |-> o, identity |-> source_git(origin_url(o), <<"m","a","i","n">>)] :
     o \in GitOrigins}

NextGit == call_source_git

SpecGit == InitGit /\ [][NextGit]_vars

-----------------------------------------------------------------------------
(* aws_base.validate_aws on its own, on responses of every shape and with  *)
(* the expected status given or left to its default.                       *)

\* expect_status_code=200
DefaultStatus == 200

StatusCodes == {200, 201, 202, 204, 301, 400, 403, 404, 409, 500}

\* ResponseMetadata absent or not a dict; HTTPStatusCode absent, not an int,
\* or an int
ResponseInputs ==
    {Response("none", "none", 0), Response("str", "none", 0),
     Response("dict", "none", 0), Response("dict", "str", 0)}
    \cup {Response("dict", "int", c) : c \in StatusCodes}

CallInputs ==
    {[response |-> x, given |-> FALSE, expect_status_code |-> 0] : x \in ResponseInputs}
    \cup {[response |-> x, given |-> TRUE, expect_status_code |-> c] :
             x \in ResponseInputs, c \in {200, 201, 204, 404}}

InitAws ==
    /\ tables = [t \in Tables |-> NoTable]
    /\ registry = [k \in RegistryKeys |-> None]
    /\ buckets = [b \in BucketNames |-> NoBucket]
    /\ clock = 0
    /\ pc = [r \in Runners |-> "idle"]
    /\ self = [r \in Runners |-> NoSelf]
    /\ calls = [r \in Runners |-> <<>>]
    /\ failed = [r \in Runners |-> FALSE]
    /\ entry = [r \in Runners |-> "unknown"]
    /\ made = [r \in Runners |-> None]
    /\ written = [r \in Runners |-> NoConfig]
    /\ runs = 0
    /\ touched = {}
    /\ secured = [b \in BucketNames |-> NoBucket]
    /\ answer = [r \in Runners |-> NoAnswer]
    /\ validated = {}
    /\ name_arg = None
    /\ name_ret = NotCalled
    /\ git_arg = NoOrigin
    /\ git_ret = NoIdentity
    /\ aws_arg \in CallInputs
    /\ aws_ret = "none"
    /\ tag_arg = NoFetch
    /\ tag_ret = "none"

\* the status the call expects
expected(call) == IF call.given THEN call.expect_status_code ELSE DefaultStatus

call_validate_aws ==
    /\ aws_ret = "none"
    /\ aws_ret' = IF validate_aws(aws_arg.response, expected(aws_arg))
                  THEN "True" ELSE "ResponseError"
    /\ UNCHANGED <<remote, runner, ghost, name_arg, name_ret, git_arg, git_ret, aws_arg, tag_arg, tag_ret>>

NextAws == call_validate_aws

SpecAws == InitAws /\ [][NextAws]_vars

-----------------------------------------------------------------------------
(* S3Bucket.bucket_owned on its own, on every outcome of                   *)
(* get_bucket_tagging: an exception, a response without a TagSet, or a     *)
(* TagSet of up to MaxTags tags, well formed or not.                       *)

TagKeys == {"managed_by", "Managed_By", "team", NotStr}

TagValues == {"terraform-init", "infra", NotStr}

TagInputs == {Tag(k, v) : k \in TagKeys, v \in TagValues}

TagSets == UNION {[1..n -> TagInputs] : n \in 0..MaxTags}

FetchInputs ==
    {[raise |-> e, TagSet |-> <<>>, given |-> FALSE] :
     e \in {"NoSuchBucket", "ClientError", "Exception"}}
    \cup {[raise |-> "none", TagSet |-> <<>>, given |-> FALSE]}
    \cup {[raise |-> "none", TagSet |-> t, given |-> TRUE] : t \in TagSets}

InitOwned ==
    /\ tables = [t \in Tables |-> NoTable]
    /\ registry = [k \in RegistryKeys |-> None]
    /\ buckets = [b \in BucketNames |-> NoBucket]
    /\ clock = 0
    /\ pc = [r \in Runners |-> "idle"]
    /\ self = [r \in Runners |-> NoSelf]
    /\ calls = [r \in Runners |-> <<>>]
    /\ failed = [r \in Runners |-> FALSE]
    /\ entry = [r \in Runners |-> "unknown"]
    /\ made = [r \in Runners |-> None]
    /\ written = [r \in Runners |-> NoConfig]
    /\ runs = 0
    /\ touched = {}
    /\ secured = [b \in BucketNames |-> NoBucket]
    /\ answer = [r \in Runners |-> NoAnswer]
    /\ validated = {}
    /\ name_arg = None
    /\ name_ret = NotCalled
    /\ git_arg = NoOrigin
    /\ git_ret = NoIdentity
    /\ aws_arg = NoCall
    /\ aws_ret = "none"
    /\ tag_arg \in FetchInputs
    /\ tag_ret = "none"

call_bucket_owned ==
    /\ tag_ret = "none"
    /\ tag_ret' = bucket_owned_of(tag_arg)
    /\ UNCHANGED <<remote, runner, ghost, name_arg, name_ret, git_arg, git_ret,
                   aws_arg, aws_ret, tag_arg>>

NextOwned == call_bucket_owned

SpecOwned == InitOwned /\ [][NextOwned]_vars

-----------------------------------------------------------------------------
(* Properties.                                                             *)

Range(f) == {f[i] : i \in DOMAIN f}

\* the run has come out of S3Bucket(bucket_name, auto_create=True)
completed(r) == pc[r] \in {"update_backend_terraform", "done"}

\* the bucket of a completed run
bucket_of(r) == IF pc[r] = "done" THEN written[r].BUCKET_NAME ELSE self[r].bucket_name

\* C1: when bucket provisioning (create_bucket, then tighten_policy) completes
\* without aborting, the bucket exists, carries the tag
\* managed_by=terraform-init, has all four public-access-block flags set and
\* has versioning enabled, whether this run created it or found it.
C1_Secured ==
    \A r \in Runners :
        completed(r) =>
            /\ buckets[bucket_of(r)].owner = "us"
            /\ <<"managed_by", "terraform-init">> \in buckets[bucket_of(r)].tags
            /\ buckets[bucket_of(r)].pab =
                   {"BlockPublicAcls", "IgnorePublicAcls", "BlockPublicPolicy",
                    "RestrictPublicBuckets"}
            /\ buckets[bucket_of(r)].versioning = "Enabled"

\* a run has completed on a bucket that an earlier run had tagged and not
\* tightened
C1_Witness == pc[Main] = "done" /\ entry[Main] = "owned" /\ made[Main] = None

\* C2 as stated: a bucket that exists without the ownership tag makes the run
\* abort, and no mutating call (create, put tagging, put public-access-block,
\* put versioning) is ever issued on it.
C2_NoMutatingCall ==
    /\ touched = {}
    /\ \A r \in Runners : completed(r) => entry[r] # "unowned"

\* C2 as amended: a bucket that exists without the ownership tag makes the
\* run abort; put tagging, put public-access-block and put versioning are
\* never issued on it, and the tag is put only on the bucket the run has
\* created; a create call can be issued on it (the probe did not show the
\* bucket), and the service refuses it.
C2_NeverRemediated ==
    /\ touched \subseteq {"create_bucket"}
    /\ \A r \in Runners : completed(r) => entry[r] # "unowned"
    /\ \A r \in Runners : pc[r] = "put_bucket_tagging" => made[r] = self[r].bucket_name

\* a run has aborted after its create call met a bucket without the tag
C2_Witness == touched = {"create_bucket"} /\ pc[Main] = "aborted"

\* how a run ends when its inputs are refused or it is killed
InputErrors ==
    {"ValueError: giturl", "ValueError: gitbranch", "ValueError: table_name",
     "ValueError: bucket_name", "raise: NoRegionError", "killed"}

\* C3: a run in which no remote call fails, started from what earlier runs of
\* the tool have left behind, completes and ends with the tables, the
\* registry row and a secured, tagged bucket.
C3_Convergent ==
    \A r \in Runners :
        ( /\ pc[r] \in {"done", "aborted"}
          /\ ~failed[r]
          /\ self[r].error \notin InputErrors
          /\ \A b \in BucketNames : buckets[b].region # "elsewhere" )
        => /\ pc[r] = "done"
           /\ \E i \in Identities :
                 /\ written[r].TABLE_LOCK = lock_name(i.table_name)
                 /\ written[r].REPO_NAME = i.repo_name
                 /\ tables[<<written[r].REGION_NAME, lock_name(i.table_name)>>].status # "ABSENT"
                 /\ tables[<<written[r].REGION_NAME, s3_name(i.table_name)>>].status # "ABSENT"
                 /\ registry[<<written[r].REGION_NAME, s3_name(i.table_name), i.bucket_uri>>]
                        = written[r].BUCKET_NAME
           /\ is_secured(written[r].BUCKET_NAME)

\* C4: once the .s3 table holds a row with a string BucketName for a GitURI,
\* the row never changes, and a lookup of that GitURI returns the stored
\* value and goes on without a put_item.
C4_Stable ==
    [][ /\ \A k \in RegistryKeys :
              has_bucket_name(k) => registry'[k] = registry[k]
        /\ \A r \in Runners :
              (pc[r] = "get_item" /\ isinstance_str(registry[registry_key(r)]))
              => /\ pc'[r] \in {"get_item", "head_bucket", "aborted"}
                 /\ pc'[r] = "head_bucket" =>
                        self'[r].bucket_name = registry[registry_key(r)] ]_vars

\* a second run has looked the name up and has not written
C4_Witness ==
    /\ runs = 2
    /\ pc[Main] = "head_bucket"
    /\ "put_item" \notin Range(calls[Main])
    /\ self[Main].bucket_name = registry[registry_key(Main)]

\* the step of create() a remote call belongs to
phase(op) ==
    IF op \in {"describe_table.lock", "describe_table.s3", "create_table.lock",
               "create_table.s3", "wait.lock", "wait.s3"} THEN 3
    ELSE IF op \in {"get_item", "put_item"} THEN 4
    ELSE 5

\* the calls before the first call of a phase
before(log, p) ==
    IF \A i \in 1..Len(log) : phase(log[i]) # p THEN log
    ELSE SubSeq(log, 1, (CHOOSE i \in 1..Len(log) :
                            phase(log[i]) = p /\ \A j \in 1..(i - 1) : phase(log[j]) # p) - 1)

\* C5: in every run the table step has completed before the registry lookup
\* is issued and the lookup before any bucket call; the configuration file is
\* written only after tables, lookup, bucket creation and tightening have
\* succeeded, never by a run that aborts, and with its five values set.
C5_Ordered ==
    \A r \in Runners :
        LET log == calls[r] IN
        /\ \A i, j \in 1..Len(log) : i < j => phase(log[i]) <= phase(log[j])
        /\ "get_item" \in Range(log) =>
              \/ before(log, 4) = <<"describe_table.lock", "describe_table.s3">>
              \/ {"wait.lock", "wait.s3"} \subseteq Range(before(log, 4))
        /\ "head_bucket" \in Range(log) => "get_item" \in Range(before(log, 5))
        /\ pc[r] = "aborted" => written[r] = NoConfig
        /\ written[r] # NoConfig =>
              /\ pc[r] = "done"
              /\ {"get_item", "head_bucket", "get_bucket_tagging",
                  "put_public_access_block", "put_bucket_versioning"} \subseteq Range(log)
              /\ is_secured(written[r].BUCKET_NAME)
              /\ isinstance_str(written[r].BUCKET_NAME)
              /\ isinstance_str(written[r].TABLE_LOCK)
              /\ isinstance_str(written[r].REPO_NAME)
              /\ isinstance_str(written[r].BRANCH_NAME)
              /\ written[r].REGION_NAME \in Regions

\* a run has written the configuration file
C5_Witness == pc[Main] = "done" /\ written[Main] # NoConfig

C7_Idempotent ==
    /\ \A b \in BucketNames :
          secured[b] # NoBucket =>
              /\ buckets[b].tags = secured[b].tags
              /\ buckets[b].pab = secured[b].pab
              /\ buckets[b].versioning = secured[b].versioning
    /\ \A r \in Runners :
          (pc[r] = "aborted" /\ entry[r] = "secured" /\ ~failed[r])
          => self[r].error = "killed"

\* a second create-and-secure has completed on a bucket secured before
C7_Witness ==
    /\ pc[Main] = "done"
    /\ entry[Main] = "secured"
    /\ secured[written[Main].BUCKET_NAME] # NoBucket

\* both tables of the run exist
tables_there(r) ==
    /\ tables[lock_table(r)].status # "ABSENT"
    /\ tables[s3_table(r)].status # "ABSENT"

\* C8: create_tables(check_exist=True) on tables that exist issues no
\* create_table, leaves the two tables (.lock keyed by LockID, .s3 keyed by
\* GitURI) as they are and does not fail unless a call fails.
C8_TablesIdempotent ==
    /\ [](\A t \in Tables : tables[t].status # "ABSENT" =>
              tables[t].hash_key = IF \E i \in Identities : t[2] = lock_name(i.table_name)
                                   THEN "LockID" ELSE "GitURI")
    /\ [][ \A r \in Runners :
              (pc[r] \in {"describe_table.lock", "describe_table.s3"}
               /\ tables_there(r) /\ pc'[r] # pc[r])
              => /\ pc'[r] \in {"describe_table.s3", "get_item", "aborted"}
                 /\ tables' = tables
                 /\ pc'[r] = "aborted" => (failed'[r] \/ self'[r].error = "killed") ]_vars

\* a second run has found both tables and gone on to the lookup
C8_Witness ==
    /\ runs = 2
    /\ pc[Main] = "get_item"
    /\ calls[Main] = <<"describe_table.lock", "describe_table.s3">>

\* C9: validate_s3bucket_name(s) is valid exactly when 3 <= len(s) <= 63, s
\* has no uppercase letter, starts with [a-z0-9], has no two consecutive
\* characters from {'-', '.'} and has only characters of [a-z0-9.-].
C9_BucketGrammar ==
    name_ret.fn = "validate_s3bucket_name" =>
        ( name_ret.result[1] <=>
            /\ Len(name_arg) >= 3 /\ Len(name_arg) <= 63
            /\ \A i \in 1..Len(name_arg) : name_arg[i] \notin Upper
            /\ name_arg[1] \in Lower \cup Digit
            /\ \A i \in 1..(Len(name_arg) - 1) :
                   ~(name_arg[i] \in {"-", "."} /\ name_arg[i + 1] \in {"-", "."})
            /\ \A i \in 1..Len(name_arg) : name_arg[i] \in Lower \cup Digit \cup {".", "-"} )

\* C10: validate_name_dynamotable(s) is valid exactly when 3 <= len(s) <= 250,
\* s starts with an alphanumeric character, has no two consecutive characters
\* from {'-', '.', '_'} and has only characters of [A-Za-z0-9._-].
C10_TableGrammar ==
    name_ret.fn = "validate_name_dynamotable" =>
        ( name_ret.result[1] <=>
            /\ Len(name_arg) >= 3 /\ Len(name_arg) <= 250
            /\ name_arg[1] \in Lower \cup Upper \cup Digit
            /\ \A i \in 1..(Len(name_arg) - 1) :
                   ~(name_arg[i] \in {"-", ".", "_"} /\ name_arg[i + 1] \in {"-", ".", "_"})
            /\ \A i \in 1..Len(name_arg) :
                   name_arg[i] \in Lower \cup Upper \cup Digit \cup {".", "-", "_"} )

-----------------------------------------------------------------------------
\* the host and the path segments of an origin, joined by sep
host_and_path(o, sep) == join(<<o.host>> \o o.path, sep)

\* C11: for origin git@github.com:org/sub/myrepo.git source_git yields
\* repo_name "myrepo", bucket_uri "github.com/org.sub/myrepo" and table_name
\* "terraform.github.com.org.sub"; in general, for scp-style and for
\* scheme://host/path origins, repo_name is the last segment without .git,
\* bucket_uri is host/dot-joined path/repo_name, and table_name is
\* "terraform." followed by the host and the path segments, dot-joined.
C11_Derivation ==
    git_ret # NoIdentity =>
        /\ git_ret.repo_name = git_arg.repo
        /\ git_ret.bucket_uri =
              git_arg.host \o <<"/">> \o join(git_arg.path, <<".">>) \o <<"/">> \o git_arg.repo
        /\ git_ret.table_name =
              <<"t","e","r","r","a","f","o","r","m",".">> \o host_and_path(git_arg, <<".">>)

-----------------------------------------------------------------------------
\* C12: validate_aws returns True exactly when ResponseMetadata is a mapping
\* whose HTTPStatusCode is an integer equal to the expected status (200 when
\* none is given); in every other case it raises ResponseError.
C12_ValidateAws ==
    aws_ret # "none" =>
        LET x == aws_arg.response IN
        /\ aws_ret \in {"True", "ResponseError"}
        /\ aws_ret = "True" <=>
              /\ x.ResponseMetadata = "dict"
              /\ x.HTTPStatusCode_type = "int"
              /\ x.HTTPStatusCode = (IF aws_arg.given THEN aws_arg.expect_status_code ELSE 200)

\* a well-formed response with status 200 has been refused by a call that
\* expects 204
C12_Witness ==
    /\ aws_ret = "ResponseError"
    /\ aws_arg.response = Response("dict", "int", 200)
    /\ aws_arg.given /\ aws_arg.expect_status_code = 204

-----------------------------------------------------------------------------
\* C13: two distinct GitURI values that had no registry row and for which
\* lookup_s3 was called one after the other have received distinct generated
\* bucket names, also when both have the same table-name prefix.
C13_DistinctNames ==
    \A k1, k2 \in RegistryKeys :
        (k1[3] # k2[3] /\ isinstance_str(registry[k1]) /\ isinstance_str(registry[k2]))
        => registry[k1] # registry[k2]

-----------------------------------------------------------------------------
\* the run has found its bucket present (head_bucket) and has gone on to look
\* at its tags, and the bucket carried the ownership tag
found_owned(r) ==
    /\ entry[r] \in {"owned", "secured"}
    /\ \E i \in 1..(Len(calls[r]) - 1) :
          calls[r][i] = "head_bucket" /\ calls[r][i + 1] = "get_bucket_tagging"

\* C14 as stated: a run that finds its bucket present and owned issues no
\* remote mutation on it: no create_bucket, no put_bucket_tagging, no
\* put_public_access_block, no put_bucket_versioning.
C14_NoMutation ==
    \A r \in Runners :
        found_owned(r) =>
            Range(calls[r]) \cap {"create_bucket", "put_bucket_tagging",
                                  "put_public_access_block", "put_bucket_versioning"} = {}

\* C14 as amended: a run that finds its bucket present and owned issues no
\* create_bucket and no put_bucket_tagging; it completes only after it has
\* issued put_public_access_block and put_bucket_versioning again, and these
\* leave a bucket that was secured as it was.
C14_NoCreateNoTag ==
    \A r \in Runners :
        found_owned(r) =>
            /\ Range(calls[r]) \cap {"create_bucket", "put_bucket_tagging"} = {}
            /\ pc[r] = "done" =>
                  /\ {"put_public_access_block", "put_bucket_versioning"}
                        \subseteq Range(calls[r])
                  /\ entry[r] = "secured" =>
                        buckets[written[r].BUCKET_NAME] = secured[written[r].BUCKET_NAME]

\* a run has completed on a bucket it found secured, after putting the
\* versioning again
C14_Witness ==
    /\ pc[Main] = "done"
    /\ found_owned(Main)
    /\ entry[Main] = "secured"
    /\ "put_bucket_versioning" \in Range(calls[Main])

-----------------------------------------------------------------------------
\* the run has written a registry row and is going on with the name
wrote(r) == Running(r) /\ "put_item" \in Range(calls[r])

\* C15 as stated: when two runs for the same GitURI have both missed the row
\* and both written one, the registry holds the name one of them wrote, the
\* two runs go on with different bucket names, and one run's name differs
\* from the name in the registry.
C15_DifferentNames ==
    (\A r \in Runners : wrote(r)) =>
        /\ registry[registry_key(Main)] \in {self[r].bucket_name : r \in Runners}
        /\ self[Main].bucket_name # self[Other].bucket_name
        /\ \E r \in Runners : self[r].bucket_name # registry[registry_key(r)]

\* C15 as amended: every put_item of lookup_s3 replaces the row, whatever it
\* holds, and the run goes on with the name it generated itself; so when two
\* runs for the same GitURI have both missed the row and both written one,
\* the registry holds the name one of them wrote, and when the generated
\* names differ (the two runs read different microseconds) one run goes on
\* with a name that is not the registry's.
C15_LastWriteWins ==
    /\ []((\A r \in Runners : wrote(r)) =>
            /\ registry[registry_key(Main)] \in {self[r].bucket_name : r \in Runners}
            /\ \A r \in Runners : self[r].bucket_name = self[r].candidate
            /\ self[Main].candidate # self[Other].candidate =>
                  \E r \in Runners : self[r].bucket_name # registry[registry_key(r)])
    /\ [][\A r \in Runners :
              (pc[r] = "put_item" /\ pc'[r] = "head_bucket") =>
                  /\ registry'[registry_key(r)] = self[r].candidate
                  /\ self'[r].bucket_name = self[r].candidate]_vars

\* both runs have written a row, and this one goes on with a name that the
\* registry does not hold
C15_Witness ==
    /\ \A r \in Runners : wrote(r)
    /\ self[Main].bucket_name # self[Other].bucket_name
    /\ registry[registry_key(Main)] # self[Main].bucket_name

-----------------------------------------------------------------------------
\* the create call of the run was answered BucketAlreadyOwnedByYou: the run
\* has issued it without a failure and has not made the bucket
already_owned(r) ==
    /\ "create_bucket" \in Range(calls[r])
    /\ made[r] = None
    /\ ~failed[r]

\* C16: a run whose create_bucket is answered BucketAlreadyOwnedByYou, the
\* bucket having been created by another run of the tool after this run's
\* head_bucket, treats the answer as success and does not abort.
C16_RaceIsSuccess ==
    \A r \in Runners : already_owned(r) => pc[r] # "aborted"

-----------------------------------------------------------------------------
\* C17: when the table step of a run has returned and the registry lookup is
\* about to be issued, both <name>.lock and <name>.s3 exist and are ready
\* (ACTIVE): the lookup is never issued against a table that is absent or
\* still being created.
C17_TablesReady ==
    \A r \in Runners :
        pc[r] = "get_item" =>
            /\ tables[lock_table(r)].status = "ACTIVE"
            /\ tables[s3_table(r)].status = "ACTIVE"

-----------------------------------------------------------------------------
\* C18: in a run whose table name was accepted, the bucket name that
\* lookup_s3 makes of it (<table_name>-<microseconds>) passes
\* validate_s3bucket_name: no run reaches the lookup with a table name whose
\* candidate would be refused, and no run ends with the bucket-name
\* ValueError.
C18_CandidateValid ==
    \A r \in Runners :
        /\ pc[r] = "get_item" =>
              validate_s3bucket_name(new_bucket_name(self[r].table_name, clock))[1]
        /\ pc[r] = "aborted" => self[r].error # "ValueError: bucket_name"

-----------------------------------------------------------------------------
\* the remote calls that change something
Mutations ==
    {"create_table.lock", "create_table.s3", "put_item", "create_bucket",
     "put_bucket_tagging", "put_public_access_block", "put_bucket_versioning"}

\* the status validate_aws is told to expect of the call
expect_status(op) == IF op = "put_bucket_tagging" THEN 204 ELSE 200

\* C19: the response of every remote mutation is checked with its expected
\* status (204 for put_bucket_tagging, 200 for the others) before the run
\* goes on: a run whose last mutation was given a response that fails the
\* check has aborted with ResponseError at that call, and an aborted run
\* issues no further call.
C19_Validated ==
    /\ [](\A r \in Runners :
            answer[r] # NoAnswer =>
                /\ answer[r].op \in Mutations
                /\ ~validate_aws(answer[r].response, expect_status(answer[r].op)) =>
                      /\ pc[r] = "aborted"
                      /\ self[r].error = "exit: ResponseError"
                      /\ calls[r][Len(calls[r])] = answer[r].op)
    /\ [][\A r \in Runners :
              pc[r] = "aborted" => calls'[r] \in {calls[r], <<>>}]_vars

\* a run has aborted because put_bucket_tagging was answered 200
C19_Witness ==
    /\ pc[Main] = "aborted"
    /\ answer[Main] = [op |-> "put_bucket_tagging", response |-> Response("dict", "int", 200)]

-----------------------------------------------------------------------------
-----------------------------------------------------------------------------
\* the tags of the fetched TagSet with key managed_by and value terraform-init
ownership_tags(bucket_tagging) ==
    {i \in 1..Len(bucket_tagging.TagSet) :
        /\ bucket_tagging.TagSet[i].Key = "managed_by"
        /\ bucket_tagging.TagSet[i].Value = "terraform-init"}

\* C21: bucket_owned returns True exactly when the tags were fetched and
\* exactly one of them is managed_by = terraform-init, whatever other tags
\* there are; on NoSuchBucket, on any other ClientError and on an empty or
\* missing TagSet it returns False and does not raise.
C21_Owned ==
    tag_ret # "none" =>
        /\ tag_ret = "True" <=>
              (tag_arg.raise = "none" /\ Cardinality(ownership_tags(tag_arg)) = 1)
        /\ ( \/ tag_arg.raise \in {"NoSuchBucket", "ClientError"}
              \/ (tag_arg.raise = "none" /\ tag_arg.TagSet = <<>>) )
              => tag_ret = "False"

\* bucket_owned has said yes to a TagSet with the ownership tag beside
\* another tag
C21_Witness ==
    /\ tag_ret = "True"
    /\ tag_arg.TagSet = <<Tag("team", "infra"), Tag("managed_by", "terraform-init")>>

-----------------------------------------------------------------------------
\* the table is there
exists(t) == tables[t].status # "ABSENT"

\* the describe_table that run r has just issued was answered with a response
\* of status 200 or with ResourceNotFoundException, and the run was not killed
described(r) == ~failed'[r] /\ self'[r].error # "killed"

\* C22: tables_exist describes <name>.lock first; it returns False on a
\* not-found for .lock without describing .s3, and on a not-found for .s3; it
\* returns True exactly when both describes succeed; a response that fails
\* the status validation is raised and never reported as False.  (True: the
\* run goes on to get_item; False: it goes on to create_table; raised: the
\* process ends.)
C22_TablesExist ==
    [][ \A r \in Runners :
          /\ (pc[r] = "describe_table.lock" /\ pc'[r] # pc[r]) =>
                /\ calls[r] = <<>>
                /\ pc'[r] \in {"describe_table.s3", "create_table.lock", "aborted"}
                /\ pc'[r] = "describe_table.s3" <=> (exists(lock_table(r)) /\ described(r))
                /\ pc'[r] = "create_table.lock" <=> (~exists(lock_table(r)) /\ described(r))
                /\ pc'[r] = "create_table.lock" => calls'[r] = <<"describe_table.lock">>
          /\ (pc[r] = "describe_table.s3" /\ pc'[r] # pc[r]) =>
                /\ calls[r] = <<"describe_table.lock">>
                /\ exists(lock_table(r))
                /\ pc'[r] \in {"get_item", "create_table.lock", "aborted"}
                /\ pc'[r] = "get_item" <=> (exists(s3_table(r)) /\ described(r))
                /\ pc'[r] = "create_table.lock" <=> (~exists(s3_table(r)) /\ described(r))
          /\ (pc[r] \in {"describe_table.lock", "describe_table.s3"} /\ failed'[r]) =>
                /\ pc'[r] = "aborted"
                /\ self'[r].error \in {"raise", "raise: ResponseError"} ]_vars

\* tables_exist has described both tables and has raised the ResponseError of
\* the second response
C22_Witness ==
    /\ pc[Main] = "aborted"
    /\ self[Main].error = "raise: ResponseError"
    /\ calls[Main] = <<"describe_table.lock", "describe_table.s3">>

-----------------------------------------------------------------------------
\* the ways source_git fails
IdentityErrors == {"ValueError: giturl", "ValueError: gitbranch"}

\* C23: a run of a repository without an origin url, or whose current branch
\* is no string, ends in source_git: it has issued no remote call and written
\* no configuration; a run that is under way or has completed has a string
\* for its registry key and for its branch.
C23_FailsInSourceGit ==
    \A r \in Runners :
        /\ self[r].error \in IdentityErrors =>
              (pc[r] = "aborted" /\ calls[r] = <<>> /\ written[r] = NoConfig)
        /\ (Running(r) \/ pc[r] = "done" \/ calls[r] # <<>> \/ written[r] # NoConfig) =>
              self[r].error \notin IdentityErrors
        /\ Running(r) =>
              (isinstance_str(self[r].bucket_uri) /\ isinstance_str(self[r].branch_name))
        /\ pc[r] = "done" =>
              (isinstance_str(written[r].REPO_NAME) /\ isinstance_str(written[r].BRANCH_NAME))

\* a run has failed on its branch while the tables and the bucket of an
\* earlier run are there
C23_Witness ==
    /\ self[Main].error = "ValueError: gitbranch"
    /\ calls[Main] = <<>>
    /\ \E t \in Tables : tables[t].status = "ACTIVE"
    /\ \E b \in BucketNames : is_secured(b)

-----------------------------------------------------------------------------
\* the repository an origin names: host, path segments and repository name
repository(o) == <<o.host, o.path, o.repo>>

\* C24: two origin urls that differ in host, in their sequence of path
\* segments or in repository name never derive the same bucket_uri: every
\* origin with the bucket_uri that source_git has derived names the
\* repository it was derived from.
C24_Injective ==
    git_ret # NoIdentity =>
        \A d \in derived :
            d.identity.bucket_uri = git_ret.bucket_uri
            => repository(d.origin) = repository(git_arg)

-----------------------------------------------------------------------------
\* the buckets that runs of the tool have created
created_buckets == {b \in BucketNames : buckets[b].owner = "us" /\ buckets[b].region \in Regions}

\* the rows of the registry that name bucket b
rows_of(b) == {k \in RegistryKeys : registry[k] = b}

\* C25 as stated: every bucket the tool has created is the BucketName of a
\* registry row whose write was validated before the bucket was created.
C25_RegisteredAndValidated ==
    \A b \in created_buckets : rows_of(b) \cap validated # {}

\* C25: in every state of runs that do not overlap, every bucket the tool has
\* created is the BucketName of a registry row, and a run issues create_bucket
\* only for the name that the row of its GitURI holds, which it has read with
\* a validated get_item or written with a validated put_item; the put_item of
\* a row that an earlier run has left need not have been validated.
C25_Registered ==
    /\ [](\A b \in created_buckets : rows_of(b) # {})
    /\ [][ \A r \in Runners :
              (pc[r] = "create_bucket" /\ self[r].bucket_name \in created_buckets' \ created_buckets)
              => /\ registry[registry_key(r)] = self[r].bucket_name
                 /\ "get_item" \in Range(calls[r])
                 /\ "put_item" \in Range(calls[r]) => registry_key(r) \in validated ]_vars

\* a run has created the bucket that a row names whose put_item, by an
\* earlier run, was answered with a response that failed the validation
C25_Witness ==
    /\ self[Main].bucket_name \in created_buckets
    /\ made[Main] = self[Main].bucket_name
    /\ "put_item" \notin Range(calls[Main])
    /\ rows_of(self[Main].bucket_name) # {}
    /\ rows_of(self[Main].bucket_name) \cap validated = {}

====
